---- MODULE Spec2Model ----
(***************************************************************************)
(* Attendance session engine of the portal backend: the attendance         *)
(* controller (clock-in, away, resume, clock-out, admin override) over the *)
(* Attendance collection.  Time is in milliseconds since local midnight of *)
(* day 0, as the Date values of the controller are.                        *)
(***************************************************************************)
EXTENDS Integers, Sequences, FiniteSets, Bags, TLC

VARIABLES
    records,    \* the Attendance collection: a set of documents
    now,        \* the latest reading of the wall clock (new Date())
    resp,       \* the response of the handler that ran last
    ops,        \* the number of requests served so far, the rejected ones not counted
    pending     \* the bag of requests in flight: past their reads, their save to come

vars == <<records, now, resp, ops, pending>>

----------------------------------------------------------------------------
(* Program constants *)

MsPerSecond == 1000
DayMs == 24 * 60 * 60 * MsPerSecond
OverrideSeconds == 28800
SecondsPerHour == 3600

(* Bounds of the model *)

MaxDay == 1
MaxOps == 5

Users == {"u1"}
Days == 0..MaxDay
\* the clock readings of the model: two on day 0 and one on each later day,
\* none a whole number of seconds after another
Instants == {0, 700} \cup {d * DayMs + 300 : d \in 1..MaxDay}

Null == 0 - 1

ActiveStatuses == {"clocked-in", "away"}

(* Request bodies of clock-out: dailyReport missing, or a string given as   *)
(* its sequence of characters.                                              *)
ReportTexts == {<<>>, <<" ">>, <<"d">>, <<" ", "d", " ">>}
ReportInputs ==
    {[given |-> FALSE, text |-> <<>>]} \cup {[given |-> TRUE, text |-> s] : s \in ReportTexts}

OverrideStatuses == {"present", "absent"}

(* The calendar around the days of the model: day 0 is the 29th of month 1,  *)
(* a month of 30 days, so that month 2 begins on day 2.                      *)
DaysInMonth == 30
DayOfMonthAtStart == 29
Months == {1, 2}
\* ?month= of the history queries: a month, or Null when it is not given
MonthQueries == Months \cup {Null}

----------------------------------------------------------------------------
(* Pure helpers *)

\* new Date(y, m, d) of a timestamp: local midnight of its day
getTodayRange(t) == (t \div DayMs) * DayMs

\* the seconds from one reading to another, with the second begun counted
segmentSeconds_PlusOne(from, to) == (to - from) \div MsPerSecond + 1

\* Math.floor((to - from) / 1000)
segmentSeconds(from, to) == (to - from) \div MsPerSecond

IsSpace(c) == c = " "

RECURSIVE TrimLeft(_)
TrimLeft(s) == IF s # <<>> /\ IsSpace(Head(s)) THEN TrimLeft(Tail(s)) ELSE s

RECURSIVE TrimRight(_)
TrimRight(s) ==
    IF s # <<>> /\ IsSpace(s[Len(s)]) THEN TrimRight(SubSeq(s, 1, Len(s) - 1)) ELSE s

\* String.prototype.trim
trim(s) == TrimRight(TrimLeft(s))

\* now.toLocaleTimeString(): the time of day, to the second
toLocaleTimeString(t) == ToString((t % DayMs) \div MsPerSecond)

\* the report check without the trim: !dailyReport
ReportMissing_NoTrim(body) == ~body.given \/ body.text = <<>>

\* !dailyReport || !dailyReport.trim()
ReportMissing(body) == ~body.given \/ body.text = <<>> \/ trim(body.text) = <<>>

\* entries.reduce((sum, e) => sum + (e.duration || 0), 0)
RECURSIVE SumDurations(_)
SumDurations(entries) ==
    IF entries = <<>> THEN 0 ELSE Head(entries).duration + SumDurations(Tail(entries))

\* new Attendance({...}): schema defaults for the fields not given
NewAttendance(u, d, st, secs, cin, cout, rep) ==
    [user |-> u, date |-> d, clockIn |-> cin, clockOut |-> cout, status |-> st,
     activeSeconds |-> secs, lastActiveAt |-> Null, sessions |-> <<>>,
     breaks |-> <<>>, dailyReport |-> rep]

----------------------------------------------------------------------------
(* Store queries *)

\* Attendance.findOne({user, status: {$in: ["clocked-in", "away"]}}): the matches
ActiveRecords(u) == {r \in records : r.user = u /\ r.status \in ActiveStatuses}

\* Attendance.findOne({user, date}): the matches
RecordsOn(u, d) == {r \in records : r.user = u /\ r.date = d}

\* save() of a new document with no unique index on the collection
DuplicateKey_NoIndex(rec) == FALSE

\* save() of a new document under the unique index on (user, date)
DuplicateKey(rec) == \E r \in records : r.user = rec.user /\ r.date = rec.date

\* save() of a document read from the store, stored as one more document
Update_Insert(old, new) == records \cup {new}

\* save() of a document read from the store
Update(old, new) == (records \ {old}) \cup {new}

\* getActiveRecord with the lookup scoped to the current day
getActiveRecord_TodayOnly(u) == {r \in ActiveRecords(u) : r.date = getTodayRange(now)}

\* getActiveRecord with a lookup that matches clocked-in alone
getActiveRecord_ClockedInOnly(u) == {r \in ActiveRecords(u) : r.status = "clocked-in"}

\* The record findOne may return for the active lookup of goAway, resume and
\* clockOut; the empty set stands for null.
getActiveRecord(u) == ActiveRecords(u)

\* getRecordForClockIn with the active lookup scoped to today's date
getRecordForClockIn_TodayOnly(u, start, t1) ==
    IF RecordsOn(u, start) = {}
    THEN {[record |-> NewAttendance(u, start, "absent", 0, t1, Null, <<>>),
           isNew |-> TRUE, isActive |-> FALSE]}
    ELSE {[record |-> r, isNew |-> FALSE, isActive |-> r.status \in ActiveStatuses] :
             r \in RecordsOn(u, start)}

\* getRecordForClockIn with an active lookup that matches clocked-in alone
getRecordForClockIn_ClockedInOnly(u, start, t1) ==
    LET running == {r \in ActiveRecords(u) : r.status = "clocked-in"}
    IN  IF running # {}
        THEN {[record |-> r, isNew |-> FALSE, isActive |-> TRUE] : r \in running}
        ELSE IF RecordsOn(u, start) = {}
        THEN {[record |-> NewAttendance(u, start, "absent", 0, t1, Null, <<>>),
               isNew |-> TRUE, isActive |-> FALSE]}
        ELSE {[record |-> r, isNew |-> FALSE, isActive |-> FALSE] : r \in RecordsOn(u, start)}

\* getRecordForClockIn that reuses a record of the user of any date
getRecordForClockIn_AnyDate(u, start, t1) ==
    IF ActiveRecords(u) # {}
    THEN {[record |-> r, isNew |-> FALSE, isActive |-> TRUE] : r \in ActiveRecords(u)}
    ELSE IF {r \in records : r.user = u} = {}
    THEN {[record |-> NewAttendance(u, start, "absent", 0, t1, Null, <<>>),
           isNew |-> TRUE, isActive |-> FALSE]}
    ELSE {[record |-> r, isNew |-> FALSE, isActive |-> FALSE] :
             r \in {x \in records : x.user = u}}

\* The results getRecordForClockIn may return: start is today's midnight and
\* t1 the clock reading that a new record gets as its clockIn.
getRecordForClockIn(u, start, t1) ==
    IF ActiveRecords(u) # {}
    THEN {[record |-> r, isNew |-> FALSE, isActive |-> TRUE] : r \in ActiveRecords(u)}
    ELSE IF RecordsOn(u, start) = {}
    THEN {[record |-> NewAttendance(u, start, "absent", 0, t1, Null, <<>>),
           isNew |-> TRUE, isActive |-> FALSE]}
    ELSE {[record |-> r, isNew |-> FALSE, isActive |-> FALSE] : r \in RecordsOn(u, start)}

----------------------------------------------------------------------------
(* Record transformers: the body of each handler between lookup and save *)

\* goAway without its state check
goAwayAllowed_AnyActive(record) == record.status \in ActiveStatuses

\* the state checks of goAway and resume on the record found
goAwayAllowed(record) == record.status = "clocked-in"

resumeAllowed(record) == record.status = "away"

\* a clock-in that starts the day's count anew
clockInRecord_ResetsDay(r, t) ==
    [r EXCEPT !.status = "clocked-in", !.lastActiveAt = t, !.activeSeconds = 0,
              !.sessions = <<>>]

clockInRecord(r, t) == [r EXCEPT !.status = "clocked-in", !.lastActiveAt = t]

\* accumulateSegment without the push to sessions
accumulateSegment_NoSession(r, t) ==
    [r EXCEPT !.activeSeconds = @ + segmentSeconds(r.lastActiveAt, t)]

\* accumulateSegment that stores the segment in place of adding it
accumulateSegment_Overwrite(r, t) ==
    [r EXCEPT !.activeSeconds = segmentSeconds(r.lastActiveAt, t),
              !.sessions = Append(@, [start |-> r.lastActiveAt, end |-> t,
                                      duration |-> segmentSeconds(r.lastActiveAt, t)])]

\* accumulate the open active segment and log it as a session
accumulateSegment(r, t) ==
    [r EXCEPT !.activeSeconds = @ + segmentSeconds(r.lastActiveAt, t),
              !.sessions = Append(@, [start |-> r.lastActiveAt, end |-> t,
                                      duration |-> segmentSeconds(r.lastActiveAt, t)])]

\* close the last break when it is open
closeCurrentBreak(bs, t) ==
    IF Len(bs) > 0 /\ bs[Len(bs)].end = Null
    THEN LET currentBreak == bs[Len(bs)]
         IN  [bs EXCEPT ![Len(bs)] =
                 [currentBreak EXCEPT !.end = t,
                                      !.duration = segmentSeconds(currentBreak.start, t)]]
    ELSE bs

goAwayRecord(r, t) ==
    LET acc == IF r.lastActiveAt # Null THEN accumulateSegment(r, t) ELSE r
    IN  [acc EXCEPT !.breaks = Append(@, [start |-> t, end |-> Null, duration |-> 0]),
                    !.status = "away",
                    !.lastActiveAt = Null]

\* resume that counts the break it closes as active time
resumeRecord_CountsBreak(r, t) ==
    [r EXCEPT !.breaks = closeCurrentBreak(@, t),
              !.activeSeconds = @ + segmentSeconds(r.breaks[Len(r.breaks)].start, t),
              !.status = "clocked-in",
              !.lastActiveAt = t]

\* resume that leaves lastActiveAt unset
resumeRecord_NoRestart(r, t) ==
    [r EXCEPT !.breaks = closeCurrentBreak(@, t),
              !.status = "clocked-in"]

resumeRecord(r, t) ==
    [r EXCEPT !.breaks = closeCurrentBreak(@, t),
              !.status = "clocked-in",
              !.lastActiveAt = t]

\* the report of a clock-out stored in place of the day's report
appendReport_Overwrite(old, t, text) == trim(text)

appendReport(old, t, text) ==
    IF old # <<>>
    THEN old \o <<"\n", "[", toLocaleTimeString(t), "]", ":", " ">> \o trim(text)
    ELSE trim(text)

clockOutRecord(r, t, text) ==
    LET acc == IF r.status = "clocked-in" /\ r.lastActiveAt # Null
               THEN accumulateSegment(r, t) ELSE r
        brk == IF r.status = "away" THEN closeCurrentBreak(acc.breaks, t) ELSE acc.breaks
    IN  [acc EXCEPT !.breaks = brk,
                    !.clockOut = t,
                    !.status = "clocked-out",
                    !.lastActiveAt = Null,
                    !.dailyReport = appendReport(@, t, text)]

\* the 8 hours of the override given to an absent day as well
overrideSeconds_Fixed(status) == OverrideSeconds

overrideSeconds(status) == IF status = "present" THEN OverrideSeconds ELSE 0

overrideNew(u, start, status) ==
    NewAttendance(u, start,
                  IF status = "present" THEN "clocked-out" ELSE "absent",
                  overrideSeconds(status),
                  IF status = "present" THEN start ELSE Null,
                  IF status = "present"
                  THEN start + overrideSeconds(status) * MsPerSecond ELSE Null,
                  <<"Admin overridden.">>)

\* the override of an existing record that leaves its timestamps as they are
overrideRecord_KeepsTimes(r, start, status) ==
    [r EXCEPT !.status = IF status = "present" THEN "clocked-out" ELSE "absent",
              !.activeSeconds = overrideSeconds(status),
              !.dailyReport = IF status = "present" THEN <<"Admin overridden.">>
                              ELSE <<"Admin marked absent.">>]

overrideRecord(r, start, status) ==
    LET base == [r EXCEPT !.status = IF status = "present" THEN "clocked-out" ELSE "absent",
                          !.activeSeconds = overrideSeconds(status)]
    IN  IF status = "absent"
        THEN [base EXCEPT !.lastActiveAt = Null, !.clockIn = Null, !.clockOut = Null,
                          !.dailyReport = <<"Admin marked absent.">>]
        ELSE [base EXCEPT !.clockIn = IF @ = Null THEN start ELSE @,
                          !.clockOut = start + overrideSeconds(status) * MsPerSecond,
                          !.dailyReport = <<"Admin overridden.">>]

----------------------------------------------------------------------------
(* Read models: what the queries compute from the store *)

\* the record getToday resolves: the active record of any date, else the
\* record dated start; the empty set stands for null
getTodayRecord(u, start) ==
    IF getActiveRecord(u) # {} THEN getActiveRecord(u) ELSE RecordsOn(u, start)

\* getToday without the live calculation
liveActiveSeconds_Persisted(record, t) == record.activeSeconds

\* liveActiveSeconds of getToday at clock reading t
liveActiveSeconds(record, t) ==
    IF record.status = "clocked-in" /\ record.lastActiveAt # Null
    THEN record.activeSeconds + segmentSeconds(record.lastActiveAt, t)
    ELSE record.activeSeconds

\* the data of getToday when no record is found
AbsentToday ==
    [status |-> "absent", clockIn |-> Null, clockOut |-> Null, activeSeconds |-> 0,
     dailyReport |-> <<>>, lastActiveAt |-> Null]

\* the data of getToday for the record found
TodayData(record, t) ==
    [status |-> record.status, clockIn |-> record.clockIn, clockOut |-> record.clockOut,
     activeSeconds |-> liveActiveSeconds(record, t),
     totalBreakSeconds |-> SumDurations(record.breaks),
     breaksCount |-> Len(record.breaks),
     lastActiveAt |-> record.lastActiveAt, dailyReport |-> record.dailyReport]

\* the today query of the employee dashboard: findOne by date range alone
dashboardTodayRecord(u, todayStart) ==
    {r \in records : r.user = u /\ todayStart <= r.date /\ r.date <= todayStart + DayMs - MsPerSecond}

\* attendance.today of the dashboard
DashboardToday(found) ==
    IF found = {}
    THEN {[status |-> "not-started"]}
    ELSE {[status |-> r.status, clockIn |-> r.clockIn, clockOut |-> r.clockOut,
           activeSeconds |-> r.activeSeconds, lastActiveAt |-> r.lastActiveAt] : r \in found}

\* new Date(year, month - 1, 1), as the number of its day
monthStart(m) == (m - 1) * DaysInMonth - (DayOfMonthAtStart - 1)

\* new Date(year, month, 0, 23, 59, 59, 999): the last millisecond before the
\* next month, as the number of its day
monthEnd(m) == monthStart(m + 1) - 1

\* now.getMonth() + 1
getMonth(t) == 1 + (t \div DayMs + DayOfMonthAtStart - 1) \div DaysInMonth

\* Attendance.find({user, date: {$gte: start, $lte: end}})
MonthRecords(u, m) ==
    {r \in records : /\ r.user = u
                     /\ monthStart(m) <= r.date \div DayMs
                     /\ r.date \div DayMs <= monthEnd(m)}

\* the statuses the history counts as a day present, absent included
PresentStatuses_WithAbsent == {"clocked-in", "clocked-out", "away", "absent"}

PresentStatuses == {"clocked-in", "clocked-out", "away"}

daysPresent(rs) == Cardinality({r \in rs : r.status \in PresentStatuses})

\* records.reduce((sum, r) => sum + (r.activeSeconds || 0), 0)
RECURSIVE totalActiveSeconds(_)
totalActiveSeconds(rs) ==
    IF rs = {} THEN 0
    ELSE LET r == CHOOSE x \in rs : TRUE
         IN  r.activeSeconds + totalActiveSeconds(rs \ {r})

\* Math.round((seconds / 3600) * 10) / 10, as a number of tenths of an hour
totalWorkingHours(seconds) == (2 * 10 * seconds + SecondsPerHour) \div (2 * SecondsPerHour)

\* .select("date status clockIn clockOut activeSeconds dailyReport")
Selected(r) ==
    [date |-> r.date, status |-> r.status, clockIn |-> r.clockIn, clockOut |-> r.clockOut,
     activeSeconds |-> r.activeSeconds, dailyReport |-> r.dailyReport]

\* .sort({date: 1})
RECURSIVE SortByDate(_)
SortByDate(rs) ==
    IF rs = {} THEN <<>>
    ELSE LET first == CHOOSE x \in rs : \A y \in rs : x.date <= y.date
         IN  <<Selected(first)>> \o SortByDate(rs \ {first})

HistoryData(u, m) ==
    [month |-> m,
     records |-> SortByDate(MonthRecords(u, m)),
     stats |-> [daysPresent |-> daysPresent(MonthRecords(u, m)),
                totalWorkingHours |->
                    totalWorkingHours(totalActiveSeconds(MonthRecords(u, m)))]]

----------------------------------------------------------------------------
(* Responses *)

\* the data of a response that carries none
NoData == [status |-> "none"]

NoResponse ==
    [op |-> "none", user |-> "none", ok |-> TRUE, message |-> "none", data |-> NoData]
Response(op, u, ok, msg) ==
    [op |-> op, user |-> u, ok |-> ok, message |-> msg, data |-> NoData]

\* res.status(200).json({success: true, data})
DataResponse(op, u, data) ==
    [op |-> op, user |-> u, ok |-> TRUE, message |-> "success", data |-> data]

MsgAlreadyClockedIn == "You are already clocked in. Please clock out first."
MsgMustBeClockedIn == "You must be clocked in to go away"
MsgNotOnBreak == "You are not on a break"
MsgNotClockedIn == "You are not clocked in. Please clock in first."
MsgReportRequired == "Daily report is required when clocking out"
MsgStoreError == "store error"
MsgClockedIn == "Clocked in successfully"
MsgPaused == "Timer paused"
MsgResumed == "Welcome back! Timer resumed"
MsgClockedOut == "Clocked out"

----------------------------------------------------------------------------
(* Handlers *)

\* a request that reaches save(), served in one step; the model serves at
\* most MaxOps requests
Written == ops < MaxOps /\ ops' = ops + 1 /\ UNCHANGED pending

\* a query that is answered counts as a request served
Answered == ops < MaxOps /\ ops' = ops + 1 /\ UNCHANGED pending

Init ==
    /\ records = {}
    /\ now = 0
    /\ resp = NoResponse
    /\ ops = 0
    /\ pending = EmptyBag

\* record.save(): an insert for a new document, an update otherwise
Save(old, rec, isNew, op, u, msg) ==
    IF isNew
    THEN IF DuplicateKey(rec)
         THEN /\ records' = records
              /\ resp' = Response(op, u, FALSE, MsgStoreError)
         ELSE /\ records' = records \cup {rec}
              /\ resp' = Response(op, u, TRUE, msg)
    ELSE /\ records' = Update(old, rec)
         /\ resp' = Response(op, u, TRUE, msg)

Reject(op, u, msg) ==
    /\ resp' = Response(op, u, FALSE, msg)
    /\ UNCHANGED <<records, now, ops, pending>>

\* POST /api/attendance/clock-in.  t0, t1, t2 are the clock readings of
\* getTodayRange, of the new record's clockIn and of the handler's now.  A
\* rejected request stores no reading: its readings are then taken as now.
clockIn(u, t0, t1, t2) ==
    /\ now <= t0 /\ t0 <= t1 /\ t1 <= t2
    /\ \E found \in getRecordForClockIn(u, getTodayRange(t0), t1) :
           IF found.isActive
           THEN /\ t2 = now
                /\ Reject("clockIn", u, MsgAlreadyClockedIn)
           ELSE /\ Written
                /\ now' = t2
                /\ Save(found.record, clockInRecord(found.record, t2), found.isNew,
                        "clockIn", u, MsgClockedIn)

\* POST /api/attendance/away.  t is the handler's now, read after the checks.
goAway(u, t) ==
    /\ now <= t
    /\ IF getActiveRecord(u) = {}
       THEN /\ t = now
            /\ Reject("goAway", u, MsgMustBeClockedIn)
       ELSE \E record \in getActiveRecord(u) :
                IF ~goAwayAllowed(record)
                THEN /\ t = now
                     /\ Reject("goAway", u, MsgMustBeClockedIn)
                ELSE /\ Written
                     /\ now' = t
                     /\ Save(record, goAwayRecord(record, t), FALSE,
                             "goAway", u, MsgPaused)

\* POST /api/attendance/resume
resume(u, t) ==
    /\ now <= t
    /\ IF getActiveRecord(u) = {}
       THEN /\ t = now
            /\ Reject("resume", u, MsgNotOnBreak)
       ELSE \E record \in getActiveRecord(u) :
                IF ~resumeAllowed(record)
                THEN /\ t = now
                     /\ Reject("resume", u, MsgNotOnBreak)
                ELSE /\ Written
                     /\ now' = t
                     /\ Save(record, resumeRecord(record, t), FALSE,
                             "resume", u, MsgResumed)

\* POST /api/attendance/clock-out
clockOut(u, body, t) ==
    /\ now <= t
    /\ IF getActiveRecord(u) = {}
       THEN /\ t = now
            /\ Reject("clockOut", u, MsgNotClockedIn)
       ELSE \E record \in getActiveRecord(u) :
                IF ReportMissing(body)
                THEN /\ t = now
                     /\ Reject("clockOut", u, MsgReportRequired)
                ELSE /\ Written
                     /\ now' = t
                     /\ Save(record, clockOutRecord(record, t, body.text), FALSE,
                             "clockOut", u, MsgClockedOut)

\* POST /api/attendance/admin/:userId/override
adminOverride(u, day, status) ==
    LET start == day * DayMs
    IN  /\ UNCHANGED now
        /\ Written
        /\ IF RecordsOn(u, start) = {}
           THEN Save(overrideNew(u, start, status), overrideNew(u, start, status), TRUE,
                     "adminOverride", u, status)
           ELSE \E old \in RecordsOn(u, start) :
                    Save(old, overrideRecord(old, start, status), FALSE,
                         "adminOverride", u, status)

\* GET /api/attendance/today.  t0 is the clock reading of getTodayRange, taken
\* when no active record is found, t1 the reading of the live calculation,
\* taken when the record is clocked-in; a reading not taken is the one before.
getToday(u, t0, t1) ==
    /\ now <= t0 /\ t0 <= t1
    /\ getActiveRecord(u) # {} => t0 = now
    /\ Answered
    /\ now' = t1
    /\ UNCHANGED records
    /\ IF getTodayRecord(u, getTodayRange(t0)) = {}
       THEN /\ t1 = t0
            /\ resp' = DataResponse("getToday", u, AbsentToday)
       ELSE \E record \in getTodayRecord(u, getTodayRange(t0)) :
                /\ (record.status = "clocked-in" /\ record.lastActiveAt # Null) \/ t1 = t0
                /\ resp' = DataResponse("getToday", u, TodayData(record, t1))

\* GET /api/attendance/history?month=.  t is the handler's now, which gives
\* the month when the query names none; a reading not used is the one before.
getHistory(u, q, t) ==
    /\ now <= t
    /\ q # Null => t = now
    /\ Answered
    /\ now' = t
    /\ UNCHANGED records
    /\ resp' = DataResponse("getHistory", u, HistoryData(u, IF q = Null THEN getMonth(t) ELSE q))

\* attendance.today of GET /api/dashboard for an employee; t is the clock
\* reading of getTodayRange
getEmployeeDashboard(u, t) ==
    /\ now <= t
    /\ Answered
    /\ now' = t
    /\ UNCHANGED records
    /\ \E today \in DashboardToday(dashboardTodayRecord(u, getTodayRange(t))) :
           resp' = DataResponse("getEmployeeDashboard", u, today)

----------------------------------------------------------------------------
(* Specifications *)

DoClockIn == \E u \in Users : \E t0, t1, t2 \in Instants : clockIn(u, t0, t1, t2)
DoGoAway == \E u \in Users : \E t \in Instants : goAway(u, t)
DoResume == \E u \in Users : \E t \in Instants : resume(u, t)
DoClockOut == \E u \in Users : \E body \in ReportInputs : \E t \in Instants : clockOut(u, body, t)
DoAdminOverride ==
    \E u \in Users : \E day \in Days : \E status \in OverrideStatuses :
        adminOverride(u, day, status)

\* the four clock actions of a user, without the administrative override
NextUser == DoClockIn \/ DoGoAway \/ DoResume \/ DoClockOut

Next == NextUser \/ DoAdminOverride

Spec == Init /\ [][Next]_vars

SpecUser == Init /\ [][NextUser]_vars

DoGetToday == \E u \in Users : \E t0, t1 \in Instants : getToday(u, t0, t1)
DoGetHistory == \E u \in Users : \E q \in MonthQueries : \E t \in Instants : getHistory(u, q, t)
DoGetEmployeeDashboard == \E u \in Users : \E t \in Instants : getEmployeeDashboard(u, t)

\* clock-outs with reports of two different texts
TwoReports ==
    {[given |-> TRUE, text |-> s] : s \in {<<"d">>, <<" ", "e", " ">>}}
        \cup {[given |-> FALSE, text |-> <<>>]}
DoClockOutReports ==
    \E u \in Users : \E body \in TwoReports : \E t \in Instants : clockOut(u, body, t)

\* the interface that writes, with these clock-outs
SpecReports ==
    Init /\ [][DoClockIn \/ DoGoAway \/ DoResume \/ DoClockOutReports \/ DoAdminOverride]_vars

\* clock readings of a clock that shows whole seconds
SecondInstants ==
    {0, 2 * MsPerSecond, 5 * MsPerSecond} \cup {d * DayMs + MsPerSecond : d \in 1..MaxDay}
DoClockInSeconds == \E u \in Users : \E t0, t1, t2 \in SecondInstants : clockIn(u, t0, t1, t2)
DoGoAwaySeconds == \E u \in Users : \E t \in SecondInstants : goAway(u, t)
DoResumeSeconds == \E u \in Users : \E t \in SecondInstants : resume(u, t)
DoClockOutSeconds ==
    \E u \in Users : \E body \in ReportInputs : \E t \in SecondInstants : clockOut(u, body, t)

\* the four clock actions under a whole-second clock, without override
SpecSeconds ==
    Init /\ [][DoClockInSeconds \/ DoGoAwaySeconds \/ DoResumeSeconds \/ DoClockOutSeconds]_vars

\* a clock-out with a report
DoClockOutWithReport ==
    \E u \in Users : \E t \in Instants : clockOut(u, [given |-> TRUE, text |-> <<"d">>], t)

\* the interface that writes, with the last request the model serves kept
\* for a clock-out, under a user who goes on sending clock-outs with a report
NextFair ==
    \/ ops < MaxOps - 1 /\ (DoClockIn \/ DoGoAway \/ DoResume \/ DoAdminOverride)
    \/ DoClockOut
SpecFair == Init /\ [][NextFair]_vars /\ WF_vars(DoClockOutWithReport)

\* the queries, which write nothing
NextRead == DoGetToday \/ DoGetHistory \/ DoGetEmployeeDashboard

\* the whole interface: the clock actions, the override and the queries
SpecAll == Init /\ [][Next \/ NextRead]_vars

----------------------------------------------------------------------------
(* Concurrent requests: a handler awaits its reads and then record.save(),
   and the requests of other connections are served in between.  A request
   past its reads is in flight: it holds the document as it read it (old) and
   as it changed it (new), and its save() reaches the store later. *)

\* the requests the concurrent model admits, and how many it holds in flight
MaxRequests == 3
MaxPending == 2

\* the paths a handler assigns as a whole
ScalarPaths == {"status", "activeSeconds", "lastActiveAt", "clockIn", "clockOut", "dailyReport"}

\* the elements a handler pushed onto an array of the document it read
Pushed(old, new) == SubSeq(new, Len(old) + 1, Len(new))

\* the handler changed an element of breaks in place (currentBreak.end = now)
SetsElement(old, new) == \E i \in 1..Len(old.breaks) : new.breaks[i] # old.breaks[i]

\* a scalar path of the stored document after save(): set when the handler
\* changed it, left as stored otherwise
Assigned(path, stored, old, new) ==
    IF new[path] # old[path] THEN new[path] ELSE stored[path]

\* save() of a document read from the store: an update of the paths the
\* handler changed, $set for the scalars and the elements changed in place,
\* $push for the elements added
applyDelta(stored, old, new) ==
    [stored EXCEPT
        !.status = Assigned("status", stored, old, new),
        !.activeSeconds = Assigned("activeSeconds", stored, old, new),
        !.lastActiveAt = Assigned("lastActiveAt", stored, old, new),
        !.clockIn = Assigned("clockIn", stored, old, new),
        !.clockOut = Assigned("clockOut", stored, old, new),
        !.dailyReport = Assigned("dailyReport", stored, old, new),
        !.sessions = @ \o Pushed(old.sessions, new.sessions),
        !.breaks = [i \in 1..Len(@) |->
                        IF i <= Len(old.breaks) /\ new.breaks[i] # old.breaks[i]
                        THEN new.breaks[i] ELSE @[i]]
                   \o Pushed(old.breaks, new.breaks)]

\* an update that sets an array element by its position carries the version
\* the document was read at, and every push raises the version: the update
\* matches nothing once another request has pushed
VersionError(stored, old, new) ==
    /\ SetsElement(old, new)
    /\ \/ Len(stored.sessions) # Len(old.sessions)
       \/ Len(stored.breaks) # Len(old.breaks)

\* a request in flight
Request(op, u, stage, start, old, new, isNew, msg) ==
    [op |-> op, user |-> u, stage |-> stage, start |-> start,
     old |-> old, new |-> new, isNew |-> isNew, msg |-> msg]

\* a request whose reads found what its checks ask for
Admitted ==
    /\ ops < MaxRequests
    /\ BagCardinality(pending) < MaxPending
    /\ ops' = ops + 1

\* the handler goes on to await record.save()
AwaitSave(op, u, old, new, isNew, msg) ==
    /\ Admitted
    /\ pending' = pending (+) SetToBag({Request(op, u, "save", old.date, old, new, isNew, msg)})
    /\ UNCHANGED <<records, resp>>

\* getRecordForClockIn up to its first await: the range of today, and the
\* lookup of an active record
clockInFindActive(u, t0) ==
    /\ now <= t0
    /\ IF ActiveRecords(u) # {}
       THEN /\ t0 = now
            /\ Reject("clockIn", u, MsgAlreadyClockedIn)
       ELSE LET blank == NewAttendance(u, getTodayRange(t0), "absent", 0, Null, Null, <<>>)
            IN  /\ Admitted
                /\ now' = t0
                /\ pending' = pending (+)
                       SetToBag({Request("clockIn", u, "find", blank.date, blank, blank,
                                         TRUE, MsgClockedIn)})
                /\ UNCHANGED <<records, resp>>

\* getRecordForClockIn from its second lookup, and clockIn up to save(); t1
\* and t2 are the readings of the new record's clockIn and of the handler's now
clockInFindToday(p, t1, t2) ==
    /\ BagIn(p, pending) /\ p.stage = "find"
    /\ now <= t1 /\ t1 <= t2
    /\ \E found \in IF RecordsOn(p.user, p.start) = {}
                    THEN {[record |-> NewAttendance(p.user, p.start, "absent", 0, t1,
                                                    Null, <<>>),
                           isNew |-> TRUE]}
                    ELSE {[record |-> r, isNew |-> FALSE] : r \in RecordsOn(p.user, p.start)} :
           /\ found.isNew \/ t1 = now
           /\ pending' = (pending (-) SetToBag({p})) (+)
                  SetToBag({[p EXCEPT !.stage = "save", !.old = found.record,
                                      !.new = clockInRecord(found.record, t2),
                                      !.isNew = found.isNew]})
    /\ now' = t2
    /\ UNCHANGED <<records, resp, ops>>

\* goAway up to save()
goAwayFind(u, t) ==
    /\ now <= t
    /\ IF getActiveRecord(u) = {}
       THEN /\ t = now
            /\ Reject("goAway", u, MsgMustBeClockedIn)
       ELSE \E record \in getActiveRecord(u) :
                IF ~goAwayAllowed(record)
                THEN /\ t = now
                     /\ Reject("goAway", u, MsgMustBeClockedIn)
                ELSE /\ now' = t
                     /\ AwaitSave("goAway", u, record, goAwayRecord(record, t), FALSE,
                                  MsgPaused)

\* resume up to save()
resumeFind(u, t) ==
    /\ now <= t
    /\ IF getActiveRecord(u) = {}
       THEN /\ t = now
            /\ Reject("resume", u, MsgNotOnBreak)
       ELSE \E record \in getActiveRecord(u) :
                IF ~resumeAllowed(record)
                THEN /\ t = now
                     /\ Reject("resume", u, MsgNotOnBreak)
                ELSE /\ now' = t
                     /\ AwaitSave("resume", u, record, resumeRecord(record, t), FALSE,
                                  MsgResumed)

\* clockOut up to save()
clockOutFind(u, body, t) ==
    /\ now <= t
    /\ IF getActiveRecord(u) = {}
       THEN /\ t = now
            /\ Reject("clockOut", u, MsgNotClockedIn)
       ELSE \E record \in getActiveRecord(u) :
                IF ReportMissing(body)
                THEN /\ t = now
                     /\ Reject("clockOut", u, MsgReportRequired)
                ELSE /\ now' = t
                     /\ AwaitSave("clockOut", u, record,
                                  clockOutRecord(record, t, body.text), FALSE,
                                  MsgClockedOut)

\* adminOverride up to save()
adminOverrideFind(u, day, status) ==
    LET start == day * DayMs
    IN  /\ UNCHANGED now
        /\ IF RecordsOn(u, start) = {}
           THEN AwaitSave("adminOverride", u, overrideNew(u, start, status),
                          overrideNew(u, start, status), TRUE, status)
           ELSE \E old \in RecordsOn(u, start) :
                    AwaitSave("adminOverride", u, old, overrideRecord(old, start, status),
                              FALSE, status)

\* record.save() reaches the store, and the handler answers: an insert for a
\* new document, refused under the unique index when the key is taken by
\* then; an update of the stored document otherwise
saveDocument(p) ==
    /\ BagIn(p, pending) /\ p.stage = "save"
    /\ pending' = pending (-) SetToBag({p})
    /\ UNCHANGED <<now, ops>>
    /\ IF p.isNew
       THEN IF DuplicateKey(p.new)
            THEN /\ records' = records
                 /\ resp' = Response(p.op, p.user, FALSE, MsgStoreError)
            ELSE /\ records' = records \cup {p.new}
                 /\ resp' = Response(p.op, p.user, TRUE, p.msg)
       ELSE \E stored \in RecordsOn(p.user, p.old.date) :
                IF VersionError(stored, p.old, p.new)
                THEN /\ records' = records
                     /\ resp' = Response(p.op, p.user, FALSE, MsgStoreError)
                ELSE /\ records' = Update(stored, applyDelta(stored, p.old, p.new))
                     /\ resp' = Response(p.op, p.user, TRUE, p.msg)

\* the clock readings of the concurrent requests: one in every day
DayInstants == {0} \cup {d * DayMs + 300 : d \in 1..MaxDay}

DoClockInFindActive == \E u \in Users : \E t0 \in DayInstants : clockInFindActive(u, t0)
DoClockInFindToday ==
    \E p \in BagToSet(pending) : \E t1, t2 \in DayInstants : clockInFindToday(p, t1, t2)
DoGoAwayFind == \E u \in Users : \E t \in DayInstants : goAwayFind(u, t)
DoResumeFind == \E u \in Users : \E t \in DayInstants : resumeFind(u, t)
DoClockOutFind ==
    \E u \in Users : \E body \in ReportInputs : \E t \in DayInstants :
        clockOutFind(u, body, t)
DoAdminOverrideFind ==
    \E u \in Users : \E day \in Days : \E status \in OverrideStatuses :
        adminOverrideFind(u, day, status)
DoSaveDocument == \E p \in BagToSet(pending) : saveDocument(p)

NextConcurrent ==
    \/ DoClockInFindActive
    \/ DoClockInFindToday
    \/ DoGoAwayFind
    \/ DoResumeFind
    \/ DoClockOutFind
    \/ DoAdminOverrideFind
    \/ DoSaveDocument

\* the clock actions and the override, served concurrently
SpecConcurrent == Init /\ [][NextConcurrent]_vars

----------------------------------------------------------------------------
(* Properties *)

\* d is the whole number of seconds in the milliseconds from start to end
WholeSeconds(d, start, end) ==
    d * MsPerSecond <= end - start /\ end - start < (d + 1) * MsPerSecond

RecordsOf(u) == {r \in records : r.user = u}

\* C1 (invariant I1): every user has at most one record, over all dates,
\* whose status is clocked-in or away.
C1_AtMostOneActive == \A u \in Users : Cardinality(ActiveRecords(u)) <= 1

\* a clock-in was accepted on a later day than another record of the user
C1_Witness ==
    /\ resp.op = "clockIn" /\ resp.ok
    /\ \E r \in ActiveRecords(resp.user) :
           /\ r.date > 0
           /\ \E other \in RecordsOf(resp.user) : other.date < r.date /\ other.sessions # <<>>

\* the timeline of section 8: in 09:00, away 11:00, resume 11:30, out 18:00
Hour == 60 * 60 * MsPerSecond
ScenarioRecord ==
    LET r0 == clockInRecord(NewAttendance("u1", 0, "absent", 0, 9 * Hour, Null, <<>>), 9 * Hour)
        r1 == goAwayRecord(r0, 11 * Hour)
        r2 == resumeRecord(r1, 11 * Hour + Hour \div 2)
    IN  clockOutRecord(r2, 18 * Hour, <<"d", "o", "n", "e">>)

\* the record the successful clock-out of this state closed
JustClockedOut ==
    {r \in RecordsOf(resp.user) : r.status = "clocked-out" /\ r.clockOut = now}

\* C2: right after each successful clock-out (no admin override) the record's
\* activeSeconds is the sum of its sessions' durations and every session's
\* duration is end - start in whole seconds; the 09:00-18:00 timeline gives
\* sessions of 7200 and 23400 seconds and activeSeconds 30600.
C2_ActiveSecondsIsSessionSum ==
    /\ (resp.op = "clockOut" /\ resp.ok) =>
           \A r \in JustClockedOut :
               /\ r.activeSeconds = SumDurations(r.sessions)
               /\ \A i \in 1..Len(r.sessions) :
                      WholeSeconds(r.sessions[i].duration, r.sessions[i].start,
                                   r.sessions[i].end)
    /\ ScenarioRecord.sessions =
           <<[start |-> 9 * Hour, end |-> 11 * Hour, duration |-> 7200],
             [start |-> 11 * Hour + Hour \div 2, end |-> 18 * Hour, duration |-> 23400]>>
    /\ ScenarioRecord.activeSeconds = 30600

\* a clock-out closed a day of two sessions, one not a whole number of seconds long
C2_Witness ==
    /\ resp.op = "clockOut" /\ resp.ok
    /\ \E r \in JustClockedOut :
           /\ Len(r.sessions) >= 2
           /\ r.activeSeconds > 0
           /\ \E i \in 1..Len(r.sessions) :
                  (r.sessions[i].end - r.sessions[i].start) % MsPerSecond # 0

\* C3: a clock-in of a user who has a clocked-in or away record, of any date,
\* is rejected as already clocked in, changes no stored record and creates none.
C3_ClockInWhileActiveRejected ==
    [][resp'.op = "clockIn" =>
          \A u \in Users : \A t0, t1, t2 \in Instants :
              (ActiveRecords(u) # {} /\ clockIn(u, t0, t1, t2)) =>
                  /\ ~resp'.ok
                  /\ resp'.message = MsgAlreadyClockedIn
                  /\ records' = records]_vars

\* a clock-in was rejected while the active record is of an earlier day
C3_Witness ==
    /\ resp.op = "clockIn" /\ ~resp.ok /\ resp.message = MsgAlreadyClockedIn
    /\ \E r \in ActiveRecords(resp.user) :
           r.date < getTodayRange(now) /\ r.status = "away"


SameDay(a, b) == a.user = b.user /\ a.date = b.date

\* the request body carries a report that is not blank
GivenReport(body) == body.given /\ \E i \in 1..Len(body.text) : body.text[i] # " "

\* this step answered with success and wrote old, and nothing else, back as a
\* record of the same user and date, creating no record dated today
AppliedTo(old, today) ==
    /\ resp'.ok
    /\ \E new \in records' :
           /\ SameDay(new, old)
           /\ new # old
           /\ records' = (records \ {old}) \cup {new}
    /\ {r \in records' : r.user = old.user /\ r.date = today}
           = {r \in records : r.user = old.user /\ r.date = today}

\* C4: when the active record is dated D and goAway, resume or clockOut runs
\* after midnight, on a later day, the operation is applied to the record
\* dated D and creates no record for the later day; after the clock-out the
\* session is closed in the one record of (user, D).
C4_CrossMidnightSameRecord ==
    [][resp'.op \in {"goAway", "resume", "clockOut"} =>
          \A u \in Users : \A t \in Instants : \A old \in ActiveRecords(u) :
              old.date < getTodayRange(t) =>
                  /\ (old.status = "clocked-in" /\ goAway(u, t)) =>
                         AppliedTo(old, getTodayRange(t))
                  /\ (old.status = "away" /\ resume(u, t)) =>
                         AppliedTo(old, getTodayRange(t))
                  /\ \A body \in ReportInputs :
                         (GivenReport(body) /\ clockOut(u, body, t)) =>
                             /\ AppliedTo(old, getTodayRange(t))
                             /\ \A new \in records' :
                                    SameDay(new, old) =>
                                        /\ new.status = "clocked-out"
                                        /\ new.clockOut = t
                                        /\ Len(new.sessions) >= Len(old.sessions)
                                        /\ Len(new.breaks) = Len(old.breaks)]_vars

\* a session begun on day D, paused and resumed after midnight, was clocked
\* out on the later day, which has no record
C4_Witness ==
    /\ resp.op = "clockOut" /\ resp.ok
    /\ \E r \in JustClockedOut :
           /\ r.date < getTodayRange(now)
           /\ r.clockIn < r.date + DayMs
           /\ r.breaks # <<>>
           /\ r.breaks[1].start >= r.date + DayMs
           /\ RecordsOn(r.user, getTodayRange(now)) = {}

\* C5: goAway is accepted exactly when the user's active record is clocked-in,
\* resume exactly when it is away, clockOut with a report exactly when the user
\* has an active record; a rejected one answers with its state-specific error
\* and changes no stored record.
C5_TransitionGuards ==
    [][\A u \in Users : \A t \in Instants :
          /\ (resp'.op = "goAway" /\ goAway(u, t)) =>
                 /\ resp'.ok <=> \E r \in ActiveRecords(u) : r.status = "clocked-in"
                 /\ ~resp'.ok => resp'.message = MsgMustBeClockedIn /\ records' = records
          /\ (resp'.op = "resume" /\ resume(u, t)) =>
                 /\ resp'.ok <=> \E r \in ActiveRecords(u) : r.status = "away"
                 /\ ~resp'.ok => resp'.message = MsgNotOnBreak /\ records' = records
          /\ resp'.op = "clockOut" =>
                 \A body \in ReportInputs :
                     clockOut(u, body, t) =>
                         /\ GivenReport(body) => (resp'.ok <=> ActiveRecords(u) # {})
                         /\ ~resp'.ok =>
                                /\ resp'.message \in {MsgNotClockedIn, MsgReportRequired}
                                /\ resp'.message = MsgNotClockedIn <=> ActiveRecords(u) = {}
                                /\ records' = records]_vars

\* a second goAway in a row was rejected, the break of the first still open
C5_Witness ==
    /\ resp.op = "goAway" /\ ~resp.ok /\ resp.message = MsgMustBeClockedIn
    /\ \E r \in ActiveRecords(resp.user) :
           r.status = "away" /\ r.breaks[Len(r.breaks)].end = Null

\* C6: a clock-out whose report is missing, empty or blank is rejected in
\* every state and leaves the store, so the active record, as it was.
C6_BlankReportRejected ==
    [][resp'.op = "clockOut" =>
          \A u \in Users : \A t \in Instants : \A body \in ReportInputs :
              (~GivenReport(body) /\ clockOut(u, body, t)) =>
                  /\ ~resp'.ok
                  /\ records' = records
                  /\ ActiveRecords(u) # {} => resp'.message = MsgReportRequired]_vars

\* a clock-out without report was rejected while a segment is running
C6_Witness ==
    /\ resp.op = "clockOut" /\ ~resp.ok /\ resp.message = MsgReportRequired
    /\ \E r \in ActiveRecords(resp.user) :
           r.status = "clocked-in" /\ r.lastActiveAt # Null /\ r.sessions # <<>>

\* nb is ob with its last, open, entry closed at t
BreakClosed(ob, nb, t) ==
    /\ ob # <<>> /\ Len(nb) = Len(ob)
    /\ ob[Len(ob)].end = Null
    /\ \A i \in 1..(Len(ob) - 1) : nb[i] = ob[i]
    /\ nb[Len(nb)].start = ob[Len(ob)].start
    /\ nb[Len(nb)].end = t
    /\ WholeSeconds(nb[Len(nb)].duration, nb[Len(nb)].start, t)

\* C7: a successful resume, and a successful clock-out of an away record, keep
\* activeSeconds and sessions and close the open break at now, with the whole
\* seconds since its start as duration; by a clock action (any step but an
\* admin override) activeSeconds changes only in a successful goAway or
\* clockOut of a clocked-in record.
C7_BreakTimeNotActive ==
    [][/\ (resp'.ok /\ resp'.op \in {"resume", "clockOut"}) =>
              \A u \in Users : \A t \in Instants : \A old \in ActiveRecords(u) :
                  (old.status = "away"
                      /\ (resume(u, t) \/ \E body \in ReportInputs : clockOut(u, body, t))) =>
                      \E new \in records' :
                          /\ SameDay(new, old)
                          /\ new.activeSeconds = old.activeSeconds
                          /\ new.sessions = old.sessions
                          /\ BreakClosed(old.breaks, new.breaks, t)
       /\ resp'.op # "adminOverride" =>
              \A old \in records : \A new \in records' :
                  (SameDay(new, old) /\ new.activeSeconds # old.activeSeconds) =>
                      /\ old.status = "clocked-in"
                      /\ resp'.op \in {"goAway", "clockOut"}
                      /\ resp'.ok]_vars

\* a resume closed a break longer than all the active time of the record
C7_Witness ==
    /\ resp.op = "resume" /\ resp.ok
    /\ \E r \in ActiveRecords(resp.user) :
           /\ r.breaks # <<>>
           /\ r.breaks[Len(r.breaks)].end = now
           /\ r.breaks[Len(r.breaks)].duration > r.activeSeconds
           /\ r.sessions # <<>>

\* C8: only the last entry of a record's breaks may lack an end.
C8_OnlyLastBreakOpen ==
    \A r \in records : \A i \in 1..(Len(r.breaks) - 1) : r.breaks[i].end # Null

\* C9: a record has a break without end only while its status is away.
C9_OpenBreakOnlyWhileAway ==
    \A r \in records :
        r.status # "away" => \A i \in 1..Len(r.breaks) : r.breaks[i].end # Null

\* C10: a record's lastActiveAt is set only while its status is clocked-in.
C10_LastActiveAtOnlyWhileClockedIn ==
    \A r \in records : r.lastActiveAt # Null => r.status = "clocked-in"

\* no record that is clocked-in or away has, after this step, fewer
\* activeSeconds than before it
NoActiveSecondsLost ==
    \A old \in records :
        old.status \in ActiveStatuses =>
            \A new \in records' : SameDay(new, old) => new.activeSeconds >= old.activeSeconds

\* C11, as stated: no step of any operation (clockIn, goAway, resume,
\* clockOut, adminOverride, the queries) that starts with a record clocked-in
\* or away lowers that record's activeSeconds.
C11_ActiveSecondsMonotone == [][NoActiveSecondsLost]_vars

\* C11, amended: no step of a clock action or of a query that starts with a
\* record clocked-in or away lowers that record's activeSeconds; only an admin
\* override may, which sets them to 0 or to 28800.
C11_MonotoneUnlessOverridden ==
    [][/\ resp'.op # "adminOverride" => NoActiveSecondsLost
       /\ resp'.op = "adminOverride" =>
              \A old \in records : \A new \in records' :
                  (SameDay(new, old) /\ new.activeSeconds # old.activeSeconds) =>
                      new.activeSeconds \in {0, OverrideSeconds}]_vars

\* a second goAway added its segment to the activeSeconds the first had left
C11_Witness ==
    /\ resp.op = "goAway" /\ resp.ok
    /\ \E r \in ActiveRecords(resp.user) :
           /\ Len(r.sessions) >= 2
           /\ r.activeSeconds > 0
           /\ r.activeSeconds = SumDurations(r.sessions)

\* the records getToday may resolve for user u when it reads the clock at t
ResolvedToday(u, t) ==
    IF ActiveRecords(u) # {} THEN ActiveRecords(u) ELSE RecordsOn(u, getTodayRange(t))

\* a clocked-in record with 1234 persisted seconds, active since 09:00
RunningRecord ==
    [clockInRecord(NewAttendance("u1", 0, "absent", 0, 9 * Hour, Null, <<>>), 9 * Hour)
        EXCEPT !.activeSeconds = 1234]

\* C12: getToday leaves every stored record unchanged; for a resolved record
\* that is clocked-in with lastActiveAt = t it reports the persisted
\* activeSeconds plus the whole seconds from t to now (persisted + 600 when t
\* is 10 minutes ago), and for a record away, clocked-out or absent, or when
\* there is no record, exactly the persisted activeSeconds (0 for no record).
C12_GetTodayReadOnlyLive ==
    [][/\ liveActiveSeconds(RunningRecord, 9 * Hour + 10 * 60 * MsPerSecond) = 1234 + 600
       /\ resp'.op = "getToday" =>
              /\ records' = records
              /\ resp'.ok
              /\ IF ResolvedToday(resp'.user, now') = {}
                 THEN resp'.data.status = "absent" /\ resp'.data.activeSeconds = 0
                 ELSE \E r \in ResolvedToday(resp'.user, now') :
                          /\ resp'.data.status = r.status
                          /\ IF r.status = "clocked-in"
                             THEN WholeSeconds(resp'.data.activeSeconds - r.activeSeconds,
                                               r.lastActiveAt, now')
                             ELSE resp'.data.activeSeconds = r.activeSeconds]_vars

\* getToday, after midnight, reported more seconds than are stored for the
\* session begun the day before
C12_Witness ==
    /\ resp.op = "getToday"
    /\ \E r \in ActiveRecords(resp.user) :
           /\ r.status = "clocked-in"
           /\ r.date < getTodayRange(now)
           /\ r.sessions # <<>>
           /\ resp.data.activeSeconds > r.activeSeconds

\* the stored records the lookup of clockIn may return at clock reading t
ClockInLookup(u, t) ==
    {found.record : found \in {f \in getRecordForClockIn(u, getTodayRange(t), t) : ~f.isNew}}

\* C13: at every clock reading from now on, the lookup of clockIn, getToday
\* and the today query of the employee dashboard resolve the same record of
\* the user: the active record of any date when there is one, else the record
\* dated with the current day.
C13_SameTodayRecord ==
    \A u \in Users : \A t \in Instants :
        t >= now =>
            /\ getTodayRecord(u, getTodayRange(t)) =
                   (IF ActiveRecords(u) # {} THEN ActiveRecords(u)
                    ELSE RecordsOn(u, getTodayRange(t)))
            /\ ClockInLookup(u, t) = getTodayRecord(u, getTodayRange(t))
            /\ dashboardTodayRecord(u, getTodayRange(t)) = getTodayRecord(u, getTodayRange(t))

\* the activeSeconds stored for user u on the day numbered d, 0 without record
SecondsOn(u, d) ==
    LET onDay == {r \in RecordsOf(u) : r.date \div DayMs = d}
    IN  IF onDay = {} THEN 0 ELSE (CHOOSE r \in onDay : TRUE).activeSeconds

\* the sum of SecondsOn over the days from..to
RECURSIVE SecondsOver(_, _, _)
SecondsOver(u, from, to) ==
    IF from > to THEN 0 ELSE SecondsOn(u, from) + SecondsOver(u, from + 1, to)

\* tenths is seconds / 3600 rounded to the nearest tenth of an hour
NearestTenth(tenths, seconds) ==
    /\ 2 * (10 * seconds - tenths * SecondsPerHour) <= SecondsPerHour
    /\ 2 * (tenths * SecondsPerHour - 10 * seconds) <= SecondsPerHour

\* the records of section 8: 28800 seconds, an absent day, 3600 seconds
ExampleMonth ==
    {NewAttendance("u1", 0, "clocked-out", 28800, 0, 8 * Hour, <<"d">>),
     NewAttendance("u1", DayMs, "absent", 0, Null, Null, <<>>),
     NewAttendance("u1", 2 * DayMs, "clocked-out", 3600, 2 * DayMs, 2 * DayMs + Hour, <<"d">>)}

\* C14: the answer of getHistory for a month has daysPresent = the number of
\* the user's records dated in the month that are not absent (clocked-in,
\* clocked-out or away, whatever their activeSeconds) and totalWorkingHours =
\* the sum of activeSeconds over all the user's records dated in the month,
\* in hours rounded to the nearest 0.1; records of 28800 s, absent and 3600 s
\* give 2 days and 9.0 hours.
C14_HistoryStats ==
    /\ daysPresent(ExampleMonth) = 2
    /\ totalWorkingHours(totalActiveSeconds(ExampleMonth)) = 90
    /\ resp.op = "getHistory" =>
           LET m == resp.data.month
               inMonth == {r \in RecordsOf(resp.user) :
                              r.date \div DayMs \in monthStart(m)..monthEnd(m)}
           IN  /\ m \in Months
               /\ resp.data.stats.daysPresent =
                      Cardinality({r \in inMonth : r.status # "absent"})
               /\ NearestTenth(resp.data.stats.totalWorkingHours,
                               SecondsOver(resp.user, monthStart(m), monthEnd(m)))
               /\ Len(resp.data.records) = Cardinality(inMonth)

\* a history of two days present, one of them with no active second yet
C14_Witness ==
    /\ resp.op = "getHistory"
    /\ resp.data.stats.daysPresent = 2
    /\ resp.data.stats.totalWorkingHours = 80
    /\ \E r \in RecordsOf(resp.user) : r.status = "clocked-in" /\ r.activeSeconds = 0

\* C15: adminOverride(user, date, absent) leaves one record of (user, date),
\* with status absent, activeSeconds 0 and clockIn, clockOut and lastActiveAt
\* cleared, whether a record of that day existed (in any status) or not, and
\* changes no other record.
C15_OverrideAbsent ==
    [][(resp'.op = "adminOverride" /\ resp'.message = "absent") =>
          \A u \in Users : \A day \in Days :
              adminOverride(u, day, "absent") =>
                  /\ resp'.ok
                  /\ \E new \in records' :
                         /\ new.user = u /\ new.date = day * DayMs
                         /\ new.status = "absent"
                         /\ new.activeSeconds = 0
                         /\ new.clockIn = Null /\ new.clockOut = Null
                         /\ new.lastActiveAt = Null
                         /\ records' = (records \ RecordsOn(u, day * DayMs)) \cup {new}]_vars

\* a day with a logged session and a break was overridden to absent
C15_Witness ==
    /\ resp.op = "adminOverride" /\ resp.message = "absent"
    /\ \E r \in RecordsOf(resp.user) :
           /\ r.status = "absent"
           /\ r.sessions # <<>> /\ r.breaks # <<>>
           /\ r.clockIn = Null

\* C16: adminOverride(user, date, present) leaves the record of (user, date),
\* new or not and whatever its state before, as a closed day of 8 hours:
\* status clocked-out, activeSeconds 28800, clockIn = local midnight of date
\* and clockOut = clockIn + 8 hours.
C16_OverridePresent ==
    [][(resp'.op = "adminOverride" /\ resp'.message = "present") =>
          \A u \in Users : \A day \in Days :
              adminOverride(u, day, "present") =>
                  \E new \in records' :
                      /\ new.user = u /\ new.date = day * DayMs
                      /\ new.status = "clocked-out"
                      /\ new.activeSeconds = OverrideSeconds
                      /\ new.clockIn = day * DayMs
                      /\ new.clockOut = new.clockIn + OverrideSeconds * MsPerSecond
                      /\ records' = (records \ RecordsOn(u, day * DayMs)) \cup {new}]_vars

\* this step created, for user u, a record dated today with clockIn = cin and
\* lastActiveAt = active, or reused the record dated today, changing its
\* status and lastActiveAt alone; either way the record is clocked-in and the
\* one record of that day
ClockedInOn(u, today, cin, active) ==
    IF RecordsOn(u, today) = {}
    THEN \E new \in records' :
             /\ new = [NewAttendance(u, today, "clocked-in", 0, cin, Null, <<>>)
                           EXCEPT !.lastActiveAt = active]
             /\ new.sessions = <<>> /\ new.activeSeconds = 0
             /\ records' = records \cup {new}
    ELSE \E old \in RecordsOn(u, today) :
             /\ old.status \in {"clocked-out", "absent"}
             /\ records' = (records \ {old})
                               \cup {[old EXCEPT !.status = "clocked-in",
                                                 !.lastActiveAt = active]}
             /\ Cardinality({r \in records' : r.user = u /\ r.date = today}) = 1

\* C17, as stated: a successful clockIn at time now creates the record dated
\* today with clockIn = now, no activeSeconds and no sessions when the user
\* has none, and else reuses the record dated today keeping its clockIn,
\* activeSeconds, sessions, breaks and dailyReport; either way the record
\* is clocked-in with lastActiveAt = now and is the one record of that day.
C17_ClockInAtNow ==
    [][(resp'.op = "clockIn" /\ resp'.ok) =>
          ClockedInOn(resp'.user, getTodayRange(now'), now', now')]_vars

\* C17, amended: the same, with the clock readings the handler takes: the
\* record is dated with the day of the first reading t0, a new record gets as
\* clockIn the reading t1 >= t0 taken when it is built, and lastActiveAt is
\* the last reading t2 >= t1.
C17_ClockInReadings ==
    [][(resp'.op = "clockIn" /\ resp'.ok) =>
          \A u \in Users : \A t0, t1, t2 \in Instants :
              clockIn(u, t0, t1, t2) =>
                  /\ t0 <= t1 /\ t1 <= t2 /\ t2 = now'
                  /\ ClockedInOn(u, getTodayRange(t0), t1, t2)]_vars

\* a clock-in reused the closed record of the day, with its session and report
C17_Witness ==
    /\ resp.op = "clockIn" /\ resp.ok
    /\ \E r \in ActiveRecords(resp.user) :
           /\ r.lastActiveAt = now
           /\ r.clockIn < now
           /\ r.clockOut # Null
           /\ r.sessions # <<>>
           /\ r.dailyReport = <<"d">>

\* x is s without its leading and trailing spaces
Trimmed(x, s) ==
    /\ x = <<>> \/ (x[1] # " " /\ x[Len(x)] # " ")
    /\ \E i, j \in 0..Len(s) :
           /\ i + j <= Len(s)
           /\ x = SubSeq(s, i + 1, Len(s) - j)
           /\ \A k \in 1..i : s[k] = " "
           /\ \A k \in (Len(s) - j + 1)..Len(s) : s[k] = " "

\* new is old followed by a newline, the time of day of t in brackets and the
\* trimmed text
Appended(old, new, t, text) ==
    /\ Len(new) > Len(old) + 6
    /\ SubSeq(new, 1, Len(old)) = old
    /\ SubSeq(new, Len(old) + 1, Len(old) + 6) =
           <<"\n", "[", toLocaleTimeString(t), "]", ":", " ">>
    /\ Trimmed(SubSeq(new, Len(old) + 7, Len(new)), text)

\* C18: each successful clock-out of a record whose dailyReport is not empty
\* leaves it as a strict prefix of the new dailyReport, followed by a newline
\* and the timestamp-prefixed trimmed report; when it is empty the new
\* dailyReport is the trimmed report.  So the reports of successive
\* clock-outs stay in the record, in their order.
C18_ReportAppended ==
    [][(resp'.op = "clockOut" /\ resp'.ok) =>
          \A u \in Users : \A t \in Instants : \A body \in TwoReports :
              \A old \in ActiveRecords(u) :
                  clockOut(u, body, t) =>
                      \E new \in records' :
                          /\ SameDay(new, old)
                          /\ records' = (records \ {old}) \cup {new}
                          /\ IF old.dailyReport = <<>>
                             THEN Trimmed(new.dailyReport, body.text)
                             ELSE Appended(old.dailyReport, new.dailyReport, t, body.text)]_vars

\* after two clock-outs of a day its report holds the first text, then the
\* stamped second one
C18_Witness ==
    /\ resp.op = "clockOut" /\ resp.ok
    /\ \E r \in JustClockedOut :
           /\ Len(r.dailyReport) = 8
           /\ r.dailyReport[1] = "d"
           /\ r.dailyReport[2] = "\n"
           /\ r.dailyReport[8] = "e"

\* the clocked-out records this step changed or removed
ClosedChanged == {r \in records : r.status = "clocked-out" /\ r \notin records'}

\* C19, as stated: no step of any operation (clockIn, goAway, resume,
\* clockOut, adminOverride, the queries) changes a field of a record that is
\* clocked-out.
C19_StableOnceClockedOut == [][ClosedChanged = {}]_vars

\* C19, amended: a record that is clocked-out is changed only by a successful
\* clockIn of its user on the record's own day, which reopens it keeping all
\* but status and lastActiveAt, or by an adminOverride of its user and date;
\* goAway, resume, clockOut, the queries, rejected requests and a clockIn on
\* another day change no field of it.
C19_ClosedChangedOnlyByReopenOrOverride ==
    [][/\ resp'.op \notin {"clockIn", "adminOverride"} => ClosedChanged = {}
       /\ (resp'.op = "clockIn" /\ ClosedChanged # {}) =>
              \A u \in Users : \A t0, t1, t2 \in Instants :
                  clockIn(u, t0, t1, t2) =>
                      /\ resp'.ok
                      /\ \A r \in ClosedChanged :
                             /\ r.user = u /\ r.date = getTodayRange(t0)
                             /\ [r EXCEPT !.status = "clocked-in", !.lastActiveAt = t2]
                                    \in records'
       /\ (resp'.op = "adminOverride" /\ ClosedChanged # {}) =>
              \A u \in Users : \A day \in Days : \A status \in OverrideStatuses :
                  adminOverride(u, day, status) =>
                      \A r \in ClosedChanged : r.user = u /\ r.date = day * DayMs]_vars

\* a clock-in on a later day left the closed record of the day before, with
\* its session and report, as it was
C19_Witness ==
    /\ resp.op = "clockIn" /\ resp.ok
    /\ \E a \in ActiveRecords(resp.user) : \E r \in RecordsOf(resp.user) :
           /\ r.status = "clocked-out"
           /\ r.date < a.date
           /\ r.sessions # <<>>
           /\ r.dailyReport = <<"d">>
           /\ r.clockOut <= a.clockIn

\* the (user, date) of the records in store
Keys(store) == {<<r.user, r.date>> : r \in store}

\* this step created no record, removed none and changed no user or date
NoneCreated ==
    /\ Keys(records') = Keys(records)
    /\ Cardinality(records') = Cardinality(records)

\* this step created one record, of the given user and date, removed none and
\* changed no user or date
Created(u, date) ==
    /\ <<u, date>> \notin Keys(records)
    /\ Keys(records') = Keys(records) \cup {<<u, date>>}
    /\ Cardinality(records') = Cardinality(records) + 1

\* C20: a record is created only by a successful clockIn, dated with the
\* current day, or by an adminOverride, dated with the given day; goAway,
\* resume, clockOut, rejected requests and the queries create none; no step
\* removes a record or changes the user or the date of one.
C20_RecordLifecycle ==
    [][/\ (resp'.op \notin {"clockIn", "adminOverride"} \/ ~resp'.ok) => NoneCreated
       /\ (resp'.op = "clockIn" /\ resp'.ok) =>
              \/ NoneCreated
              \/ \A u \in Users : \A t0, t1, t2 \in Instants :
                     clockIn(u, t0, t1, t2) => Created(u, getTodayRange(t0))
       /\ resp'.op = "adminOverride" =>
              \/ NoneCreated
              \/ \A u \in Users : \A day \in Days : \A status \in OverrideStatuses :
                     adminOverride(u, day, status) => Created(u, day * DayMs)]_vars

\* an override created the record of a day beside the record a clock-in made
C20_Witness ==
    /\ resp.op = "adminOverride"
    /\ \E r, o \in RecordsOf(resp.user) :
           /\ r.date # o.date
           /\ r.sessions # <<>> /\ r.clockIn # Null
           /\ o.sessions = <<>> /\ o.lastActiveAt = Null
           /\ o.dailyReport = <<"Admin overridden.">>

\* C25: every stored record with status absent has activeSeconds 0 and no
\* clockIn, clockOut or lastActiveAt; the absent record the lookup of clockIn
\* builds is stored as clocked-in only.
C25_AbsentRecordsAreBlank ==
    \A r \in records :
        r.status = "absent" =>
            /\ r.activeSeconds = 0
            /\ r.clockIn = Null /\ r.clockOut = Null /\ r.lastActiveAt = Null

\* a day that was worked, with a running segment, is stored as absent
C25_Witness ==
    /\ resp.op = "adminOverride" /\ resp.message = "absent"
    /\ \E r \in RecordsOf(resp.user) :
           /\ r.status = "absent"
           /\ Len(r.sessions) >= 2
           /\ SumDurations(r.sessions) > 0

\* C26: every stored record with status clocked-in has lastActiveAt set, so
\* goAway and clockOut always account for the open segment.
C26_ClockedInHasLastActiveAt ==
    \A r \in records : r.status = "clocked-in" => r.lastActiveAt # Null

\* a day marked absent, its lastActiveAt cleared, was clocked in again, paused
\* and resumed
C26_Witness ==
    /\ resp.op = "resume" /\ resp.ok
    /\ \E r \in ActiveRecords(resp.user) :
           /\ r.status = "clocked-in"
           /\ r.lastActiveAt = now
           /\ r.dailyReport = <<"Admin marked absent.">>

\* C27: every stored record with status clocked-in or away has clockIn set.
C27_ActiveHasClockIn ==
    \A r \in records : r.status \in ActiveStatuses => r.clockIn # Null

\* C21, for clockOut: a clock-out whose report is missing or empty is rejected
\* as a validation error whatever the store holds: it gets the
\* report-required rejection whether or not the user has an active record,
\* and changes no record.
C21_ValidationBeforeStore ==
    [][resp'.op = "clockOut" =>
          \A u \in Users : \A t \in Instants : \A body \in ReportInputs :
              ((~body.given \/ body.text = <<>>) /\ clockOut(u, body, t)) =>
                  /\ ~resp'.ok
                  /\ resp'.message = MsgReportRequired
                  /\ records' = records]_vars

\* the breaks of a record that have an end
ClosedBreaks(r) == SelectSeq(r.breaks, LAMBDA b : b.end # Null)

\* the latest timestamp written to the record: the time of the latest
\* operation on it
RECURSIVE MaxOf(_)
MaxOf(S) ==
    IF S = {} THEN 0
    ELSE LET x == CHOOSE y \in S : TRUE
             m == MaxOf(S \ {x})
         IN  IF x > m THEN x ELSE m

LatestOperation(r) ==
    MaxOf({r.clockIn, r.clockOut, r.lastActiveAt}
              \cup {r.sessions[i].end : i \in 1..Len(r.sessions)}
              \cup {r.breaks[i].start : i \in 1..Len(r.breaks)}
              \cup {r.breaks[i].end : i \in 1..Len(r.breaks)})

\* the seconds counted for the record, as active time or as closed break
CountedMs(r) == (r.activeSeconds + SumDurations(ClosedBreaks(r))) * MsPerSecond

\* no session and closed break of the record share wall-clock time
NoSecondTwice(r) ==
    \A i \in 1..Len(r.sessions) : \A j \in 1..Len(r.breaks) :
        r.breaks[j].end # Null =>
            \/ r.sessions[i].end <= r.breaks[j].start
            \/ r.breaks[j].end <= r.sessions[i].start

\* the record was clocked out once, so clocked in once
ClockedOutOnce(r) ==
    /\ r.status = "clocked-out"
    /\ \A i \in 1..Len(r.dailyReport) : r.dailyReport[i] # "\n"

\* C28, as stated: under the clock actions with a whole-second clock, for
\* every record activeSeconds plus the durations of the closed breaks is at
\* most the time from clockIn to the latest operation on the record, with
\* equality for a record clocked out after a single clock-in, and no session
\* overlaps a closed break.
C28_TimeConservation ==
    \A r \in records :
        /\ CountedMs(r) <= LatestOperation(r) - r.clockIn
        /\ ClockedOutOnce(r) => CountedMs(r) = r.clockOut - r.clockIn
        /\ NoSecondTwice(r)

\* C28, amended: the same, with the time counted from the start of the first
\* active segment (the lastActiveAt of the first clock-in), which is clockIn
\* or later: the bound from clockIn holds, and for a record clocked out after
\* a single clock-in the counted time is the time from the start of its first
\* session to clockOut.
C28_TimeConservationFromFirstSegment ==
    \A r \in records :
        /\ CountedMs(r) <= LatestOperation(r) - r.clockIn
        /\ ClockedOutOnce(r) =>
               /\ r.sessions # <<>>
               /\ r.clockIn <= r.sessions[1].start
               /\ CountedMs(r) = r.clockOut - r.sessions[1].start
        /\ NoSecondTwice(r)

\* a day of two sessions around a break, all of them lasting, clocked out once
C28_Witness ==
    /\ resp.op = "clockOut" /\ resp.ok
    /\ \E r \in JustClockedOut :
           /\ ClockedOutOnce(r)
           /\ Len(r.sessions) = 2 /\ Len(r.breaks) = 1
           /\ r.sessions[1].duration > 0 /\ r.sessions[2].duration > 0
           /\ r.breaks[1].duration > 0

\* user u can clock in now and be accepted
CanClockIn(u) == ENABLED (clockIn(u, now, now, now) /\ resp'.ok)

\* user u can clock out now with a report, be accepted and have no active
\* record afterwards
CanClockOut(u) ==
    ENABLED (/\ clockOut(u, [given |-> TRUE, text |-> <<"d">>], now)
             /\ resp'.ok
             /\ \A r \in records' : r.user = u => r.status \notin ActiveStatuses)

\* C30: in every reachable state each user can either clock in and be
\* accepted (no active record) or clock out with a report and be accepted
\* (an active record), so a state without active record is one step away;
\* and while the user goes on sending clock-outs with a report, an active
\* session is eventually closed.
C30_NoDeadEnd ==
    /\ [](\A u \in Users :
              ops < MaxOps =>
                  /\ ActiveRecords(u) = {} => CanClockIn(u)
                  /\ ActiveRecords(u) # {} => CanClockOut(u))
    /\ \A u \in Users : (ActiveRecords(u) # {}) ~> (ActiveRecords(u) = {})

\* a session left open over midnight, on a break, was closed by a clock-out
C30_Witness ==
    /\ resp.op = "clockOut" /\ resp.ok
    /\ ActiveRecords(resp.user) = {}
    /\ \E r \in JustClockedOut :
           /\ r.date < getTodayRange(now)
           /\ r.breaks # <<>>
           /\ r.breaks[Len(r.breaks)].end = now
           /\ r.sessions # <<>>

\* C22: under any interleaving of the finds and saves of concurrent clock-ins
\* and overrides, the store holds at most one record for a user and a date;
\* of the requests that found no record for the day and insert one, the
\* later ones are refused.
C22_OneRecordPerUserAndDate ==
    \A u \in Users : \A d \in Days : Cardinality(RecordsOn(u, d * DayMs)) <= 1

\* an insert was refused because the day's record had been inserted since
\* the request looked for it
C22_Witness ==
    /\ resp.op \in {"clockIn", "adminOverride"}
    /\ ~resp.ok
    /\ resp.message = MsgStoreError
    /\ RecordsOn(resp.user, getTodayRange(now)) # {}

\* C23: under any interleaving of the reads and saves of concurrent clock
\* requests of one user, those that straddle midnight included, no two
\* records of the user are clocked-in or away together.
C23_AtMostOneActiveUnderConcurrency ==
    \A u \in Users : \A r1, r2 \in records :
        (/\ r1.user = u /\ r2.user = u
         /\ r1.status \in ActiveStatuses /\ r2.status \in ActiveStatuses) => r1 = r2

\* C24: an override that found no record for its day and meets the record at
\* its save, inserted by another request in between, is answered with
\* success, the record updated.
C24_OverrideUpdatesOnDuplicate ==
    [][\A p \in BagToSet(pending) :
           (/\ p.op = "adminOverride" /\ p.isNew
            /\ DuplicateKey(p.new)
            /\ saveDocument(p))
           => /\ resp'.ok
              /\ \E r \in records' :
                     /\ r.user = p.user /\ r.date = p.new.date
                     /\ r.status = p.new.status
                     /\ r.activeSeconds = p.new.activeSeconds]_vars

\* no two sessions of the record share wall-clock time
NoSessionTwice(r) ==
    \A i, j \in 1..Len(r.sessions) :
        i < j => \/ r.sessions[i].end <= r.sessions[j].start
                 \/ r.sessions[j].end <= r.sessions[i].start

\* the request in flight read the record clocked-in, and another goAway or
\* clockOut that read the same open segment has saved since
ReadBeforeEitherSaved(p, stored) ==
    /\ p.stage = "save" /\ ~p.isNew
    /\ p.op \in {"goAway", "clockOut"}
    /\ p.old.status = "clocked-in" /\ p.old.lastActiveAt # Null
    /\ stored.user = p.user /\ stored.date = p.old.date
    /\ stored.status \in {"away", "clocked-out"}
    /\ Len(stored.sessions) = Len(p.old.sessions) + 1
    /\ stored.sessions[Len(stored.sessions)].start = p.old.lastActiveAt
    /\ stored.activeSeconds = SumDurations(stored.sessions)
    /\ p.op = "clockOut" \/ stored.status = "clocked-out"

\* C29: when a goAway and a clockOut, or two clockOuts, of a user both read
\* the clocked-in record before either saves, the open segment is recorded
\* once: after the second save activeSeconds is the sum of the sessions'
\* durations, no two sessions cover the same time, and the record is
\* clocked-out, the clockOut having been answered with success.
C29_NoDoubleCounting ==
    [][\A p \in BagToSet(pending) : \A stored \in records :
           (ReadBeforeEitherSaved(p, stored) /\ saveDocument(p))
           => \A r \in records' :
                  (r.user = p.user /\ r.date = p.old.date)
                  => /\ r.activeSeconds = SumDurations(r.sessions)
                     /\ NoSessionTwice(r)
                     /\ r.status = "clocked-out"]_vars

============================================================================
